---- MODULE Spec2Model ----
(***************************************************************************)
(* A model of CustomHeadsetOpenVR's radial Bezier distortion profile       *)
(* (src/Distortion/RadialBezierDistortionProfile.cpp) and of its           *)
(* configuration loader (src/Config/ConfigLoader.cpp).                     *)
(*                                                                         *)
(* Arithmetic.  The code computes in IEEE float.  The model computes in    *)
(* exact extended rationals: a value is [n |-> numerator, d |-> denom.]    *)
(* in lowest terms with d >= 0, where d = 0 encodes the non-finite values  *)
(* a float division by zero produces (+inf = 1/0, -inf = -1/0, NaN = 0/0). *)
(* Rounding error is therefore not modelled; every equality below is an    *)
(* equality of exact values.                                               *)
(***************************************************************************)
EXTENDS Integers, Sequences, FiniteSets, TLC

----------------------------------------------------------------------------
(* Bounds of the model. *)

\* longest calibration sequence handed to the curve functions
MaxPoints == 4
\* largest degree / position coordinate of a generated calibration point
MaxCoord == 3
\* largest innerPointCounts handed to SmoothPoints
MaxCount == 2
\* largest radialMapSize an engine is configured with
MaxMapSize == 3
\* Initialize calls on one engine
MaxInits == 2
\* fU and fV range over the multiples of 1/GridDen in [-1, 1]
GridDen == 2
\* most FILE_NOTIFY_INFORMATION entries in one notification buffer
MaxEntries == 3
\* a watcher's walk is followed until it has examined one entry MaxVisits times
MaxVisits == 2

\* nullptr
NULL == 0

----------------------------------------------------------------------------
(* float arithmetic, as exact extended rationals *)

Abs(x) == IF x < 0 THEN -x ELSE x

Sign(x) == IF x < 0 THEN -1 ELSE IF x > 0 THEN 1 ELSE 0

RECURSIVE GCD(_, _)
GCD(a, b) == IF b = 0 THEN a ELSE GCD(b, a % b)

\* n/d in lowest terms, d >= 0; d = 0 gives +inf, -inf or NaN by the sign of n
Rat(n, d) ==
    IF d = 0 THEN [n |-> Sign(n), d |-> 0]
    ELSE LET g == GCD(Abs(n), d) IN [n |-> n \div g, d |-> d \div g]

Frac(n, d) == IF d < 0 THEN Rat(-n, -d) ELSE Rat(n, d)

FromInt(k) == [n |-> k, d |-> 1]

NaN == [n |-> 0, d |-> 0]

IsNaN(a) == a.n = 0 /\ a.d = 0

FNeg(a) == [n |-> -a.n, d |-> a.d]

FAdd(a, b) ==
    IF a.d = 0 /\ b.d = 0
    THEN (IF a.n = b.n THEN a ELSE NaN)
    ELSE Rat(a.n * b.d + b.n * a.d, a.d * b.d)

FSub(a, b) == FAdd(a, FNeg(b))

FMul(a, b) == Rat(a.n * b.n, a.d * b.d)

\* 1/a: 1/0 is +inf, 1/inf is 0, 1/NaN is NaN
FRecip(a) ==
    IF a.n < 0 THEN [n |-> -a.d, d |-> -a.n] ELSE [n |-> a.d, d |-> a.n]

FDiv(a, b) == FMul(a, FRecip(b))

\* comparisons: any comparison with NaN is false
FLt(a, b) ==
    /\ ~IsNaN(a)
    /\ ~IsNaN(b)
    /\ IF a.d = 0 /\ b.d = 0 THEN a.n < b.n ELSE a.n * b.d < b.n * a.d

FLe(a, b) ==
    /\ ~IsNaN(a)
    /\ ~IsNaN(b)
    /\ IF a.d = 0 /\ b.d = 0 THEN a.n <= b.n ELSE a.n * b.d <= b.n * a.d

FGe(a, b) == FLe(b, a)

\* std::max(a, b) is (a < b) ? b : a
FMax(a, b) == IF FLt(a, b) THEN b ELSE a

----------------------------------------------------------------------------
(* The curve functions *)

DistortionPoint(deg, pos) == [degree |-> deg, position |-> pos]

\* a point on the cubic Bezier curve of four control points at parameter t
BezierPoint(t, controlPoints) ==
    LET tSquared == FMul(t, t)
        oneMinusT == FSub(FromInt(1), t)
        oneMinusTSquared == FMul(oneMinusT, oneMinusT)
        cube(x) == FMul(FMul(x, x), x)
        three == FromInt(3)
        b0 == cube(oneMinusT)
        b1 == FMul(FMul(three, oneMinusTSquared), t)
        b2 == FMul(FMul(three, oneMinusT), tSquared)
        b3 == cube(t)
        pointX == FAdd(FAdd(FAdd(FMul(b0, controlPoints[1].degree),
                                 FMul(b1, controlPoints[2].degree)),
                            FMul(b2, controlPoints[3].degree)),
                       FMul(b3, controlPoints[4].degree))
        pointY == FAdd(FAdd(FAdd(FMul(b0, controlPoints[1].position),
                                 FMul(b1, controlPoints[2].position)),
                            FMul(b2, controlPoints[3].position)),
                       FMul(b3, controlPoints[4].position))
    IN  DistortionPoint(pointX, pointY)

smoothAmount == Frac(1, 3)

\* the four control points of the segment from points[i] to points[i + 1]
\* (i counts from 1 here, from 0 in the code)
ControlPoints(points, i) ==
    LET size == Len(points)
        prevPoint == points[i]
        nextPoint == points[i + 1]
        prevPrevPoint == IF i <= 1 THEN points[i] ELSE points[i - 1]
        nextNextPoint == IF i >= size - 1 THEN points[i + 1] ELSE points[i + 2]
        fallbackSlope == FDiv(FSub(nextPoint.position, prevPoint.position),
                              FSub(nextPoint.degree, prevPoint.degree))
        prevSlope == IF i <= 1 THEN fallbackSlope
                     ELSE FDiv(FSub(nextPoint.position, prevPrevPoint.position),
                               FSub(nextPoint.degree, prevPrevPoint.degree))
        nextSlope == IF i >= size - 1 THEN fallbackSlope
                     ELSE FDiv(FSub(nextNextPoint.position, prevPoint.position),
                               FSub(nextNextPoint.degree, prevPoint.degree))
        centerDistance == FMul(FSub(nextPoint.degree, prevPoint.degree), smoothAmount)
        centerFromPrev == FAdd(FMul(centerDistance, prevSlope), prevPoint.position)
        centerFromNext == FAdd(FMul(FNeg(centerDistance), nextSlope), nextPoint.position)
    IN  << prevPoint,
           DistortionPoint(FAdd(prevPoint.degree, centerDistance), centerFromPrev),
           DistortionPoint(FSub(nextPoint.degree, centerDistance), centerFromNext),
           nextPoint >>

\* the inner points with t = j / (n + 1) for j from 0, (j + 1) forgotten in line 59
SmoothSegmentFromZero(points, innerPointCounts, i) ==
    LET controlPoints == ControlPoints(points, i)
        inner == IF innerPointCounts <= 0 THEN << >>
                 ELSE [j \in 1..innerPointCounts |->
                          BezierPoint(Frac(j - 1, innerPointCounts + 1), controlPoints)]
    IN  << points[i] >> \o inner

\* what one iteration of the outer loop pushes: points[i], then the inner points
SmoothSegment(points, innerPointCounts, i) ==
    LET controlPoints == ControlPoints(points, i)
        inner == IF innerPointCounts <= 0 THEN << >>
                 ELSE [j \in 1..innerPointCounts |->
                          BezierPoint(Frac(j, innerPointCounts + 1), controlPoints)]
    IN  << points[i] >> \o inner

RECURSIVE SmoothFrom(_, _, _)
SmoothFrom(points, innerPointCounts, i) ==
    IF i > Len(points) - 1 THEN << points[Len(points)] >>
    ELSE SmoothSegment(points, innerPointCounts, i)
            \o SmoothFrom(points, innerPointCounts, i + 1)

\* SmoothPoints without line 62, the push of the last point
SmoothPointsWithoutLast(points, innerPointCounts) ==
    LET out == SmoothFrom(points, innerPointCounts, 1)
    IN  SubSeq(out, 1, Len(out) - 1)


SmoothPoints(points, innerPointCounts) == SmoothFrom(points, innerPointCounts, 1)

lerp(a, b, t) == FAdd(a, FMul(t, FSub(b, a)))

\* the first segment (from 1) whose degrees bracket the degree, 0 when none does
DegreeSegment(points, degree) ==
    LET hits == {i \in 1..(Len(points) - 1) :
                    FGe(degree, points[i].degree) /\ FLe(degree, points[i + 1].degree)}
    IN  IF hits = {} THEN 0 ELSE CHOOSE i \in hits : \A k \in hits : i <= k

SampleFromPoints(points, degree) ==
    LET i == DegreeSegment(points, degree)
        last == Len(points) - 1
    IN  IF i # 0
        THEN LET t == FDiv(FSub(degree, points[i].degree),
                           FSub(points[i + 1].degree, points[i].degree))
             IN  FAdd(points[i].position,
                      FMul(t, FSub(points[i + 1].position, points[i].position)))
        ELSE IF FLt(degree, points[1].degree) THEN points[1].position
        ELSE LET t == FDiv(FSub(degree, points[last].degree),
                           FSub(points[last + 1].degree, points[last].degree))
             IN  lerp(points[last].position, points[last + 1].position, t)

\* the first segment (from 1) whose positions bracket the position, 0 when none does
PositionSegment(points, position) ==
    LET hits == {i \in 1..(Len(points) - 1) :
                    FGe(position, points[i].position) /\ FLe(position, points[i + 1].position)}
    IN  IF hits = {} THEN 0 ELSE CHOOSE i \in hits : \A k \in hits : i <= k

\* SampleFromPointsInverse interpolating position where it should interpolate
\* degree, as a copy of SampleFromPoints with only the search changed would
SampleFromPointsInverseUnswapped(points, position) ==
    LET i == PositionSegment(points, position)
        last == Len(points) - 1
    IN  IF i # 0
        THEN LET t == FDiv(FSub(position, points[i].position),
                           FSub(points[i + 1].position, points[i].position))
             IN  FAdd(points[i].position,
                      FMul(t, FSub(points[i + 1].position, points[i].position)))
        ELSE IF FLt(position, points[1].position) THEN points[1].position
        ELSE LET t == FDiv(FSub(position, points[last].position),
                           FSub(points[last + 1].position, points[last].position))
             IN  lerp(points[last].position, points[last + 1].position, t)


SampleFromPointsInverse(points, position) ==
    LET i == PositionSegment(points, position)
        last == Len(points) - 1
    IN  IF i # 0
        THEN LET t == FDiv(FSub(position, points[i].position),
                           FSub(points[i + 1].position, points[i].position))
             IN  FAdd(points[i].degree,
                      FMul(t, FSub(points[i + 1].degree, points[i].degree)))
        ELSE IF FLt(position, points[1].position) THEN points[1].degree
        ELSE LET t == FDiv(FSub(position, points[last].position),
                           FSub(points[last + 1].position, points[last].position))
             IN  lerp(points[last].degree, points[last + 1].degree, t)

----------------------------------------------------------------------------
(* State *)

VARIABLES
    \* the curve functions' caller: the sequence handed in, the calls made on
    \* it so far, and what they returned
    points,          \* the calibration sequence
    calls,           \* the functions called so far, in order
    innerPointCounts,\* SmoothPoints' second argument
    outPoints,       \* what SmoothPoints returned
    sampleArg,       \* the argument of the first sampling call
    sampleVal        \* what the last sampling call returned

curveVars == << points, calls, innerPointCounts, outPoints, sampleArg, sampleVal >>

VARIABLES
    \* one RadialBezierDistortionProfile
    distortions,         \* the green calibration sequence
    inBetweenPoints,     \* the smoothing density
    radialMapSize,       \* the table size
    radialUVMapR,        \* the three table pointers: NULL or a block of the heap
    radialUVMapG,
    radialUVMapB,
    radialMapConversion, \* the radius-to-index scale
    halfFov,
    heap,                \* the float arrays ever allocated, in order of allocation
    \* the thread that owns the engine's lifecycle
    initPc,              \* where it stands, "idle" between calls
    fillIndex,           \* i of the table-filling loop
    inits,               \* Initialize calls made
    lastCall,            \* the lifecycle call that returned last
    \* the render thread, in ComputeDistortion
    samplePc,            \* where it stands, "idle" between calls
    sampleReady,         \* whether the call began on an initialized engine
    sampleRadiusSq,      \* fU*fU + fV*fV, in units of 1/GridDen^2
    sampleMap,           \* the table pointer handed to SampleFromMap
    sampleIndex,         \* SampleFromMap's index, clamped, and its weight
    sampleAccess,        \* what the read of map[index], map[index + 1] met
    \* whether the caller keeps lifecycle calls and sampling apart in time
    serialized

engineVars ==
    << distortions, inBetweenPoints, radialMapSize, radialUVMapR, radialUVMapG,
       radialUVMapB, radialMapConversion, halfFov, heap, initPc, fillIndex, inits,
       lastCall >>

samplerVars ==
    << samplePc, sampleReady, sampleRadiusSq, sampleMap, sampleIndex, sampleAccess >>

VARIABLES
    \* the ConfigLoader
    driverConfig,                \* the global configuration
    hasLoggedConfigFileNotFound,
    settingsFile,                \* the settings.json the last ParseConfig met
    parseResult,                 \* how the last ParseConfig ended
    profileFile,                 \* the profile file the last ParseDistortionConfig met
    profileResult,               \* how the last ParseDistortionConfig ended
    loadedProfile                \* what the last ParseDistortionConfig returned

configVars ==
    << driverConfig, hasLoggedConfigFileNotFound, settingsFile, parseResult,
       profileFile, profileResult, loadedProfile >>

VARIABLES
    \* one directory watcher thread
    watcherRoutine,  \* the routine it runs: WatcherThread or WatcherThreadDistortions
    watchPc,         \* where it is in the routine
    buffer,          \* the entries ReadDirectoryChangesW last returned
    pNotify,         \* the entry pNotify points at
    examined,        \* how often the walk has examined each entry of buffer
    reloads          \* how often the walk has called ParseConfig for each entry

watcherVars == << watcherRoutine, watchPc, buffer, pNotify, examined, reloads >>

vars == << curveVars, engineVars, samplerVars, serialized, configVars, watcherVars >>

----------------------------------------------------------------------------
(* The configuration loader: ConfigLoader *)

\* A field of a configuration or of a profile holds its default or the value
\* the file gave it.
ConfigFields ==
    {"enable", "ipd", "ipdOffset", "blackLevel", "distortionProfile",
     "watchDistortionProfiles"}

MeganeFields == {"enable", "ipd", "ipdOffset", "blackLevel", "distortionProfile"}

\* Config newConfig = {}
DefaultConfig == [f \in ConfigFields |-> "default"]

\* What ParseConfig can meet at settings.json: no file, text json::parse
\* throws on, a document whose root is an array (data["meganeX8K"] throws), or
\* an object, in which each field either passes its is_boolean / is_number /
\* is_string test ("set") or is missing or of another type ("unusable").
\* Without a meganeX8K object its five fields are not looked at.
SettingsFiles ==
    {[kind |-> k, meganeX8K |-> "unusable", fields |-> [f \in ConfigFields |-> "unusable"]] :
        k \in {"missing", "unparsable", "array"}}
    \cup {[kind |-> "object", meganeX8K |-> "object", fields |-> fs] :
             fs \in [ConfigFields -> {"unusable", "set"}]}
    \cup {[kind |-> "object", meganeX8K |-> "unusable",
           fields |-> [f \in ConfigFields |->
                          IF f = "watchDistortionProfiles" THEN w ELSE "unusable"]] :
             w \in {"unusable", "set"}}

\* lines 36-57: newConfig as the try block fills it from a parsed object
NewConfig(file) ==
    [f \in ConfigFields |->
        IF /\ file.fields[f] = "set"
           /\ (f \in MeganeFields => file.meganeX8K = "object")
        THEN "file" ELSE "default"]

\* how ParseConfig ends on a file
ParseConfigOutcome(file) ==
    CASE file.kind = "missing" -> "notfound"
      [] file.kind \in {"unparsable", "array"} -> "threw"
      [] OTHER -> "ok"

\* driverConfig after ParseConfig met the file
ParsedConfig(config, file) ==
    IF ParseConfigOutcome(file) = "ok" THEN NewConfig(file) ELSE config

\* what one call of ParseConfig does to the loader, whoever calls it
ParseConfigCall(file) ==
    /\ settingsFile' = file
    /\ parseResult' = ParseConfigOutcome(file)
    /\ hasLoggedConfigFileNotFound' =
          (hasLoggedConfigFileNotFound \/ file.kind = "missing")
    /\ driverConfig' = ParsedConfig(driverConfig, file)
    /\ UNCHANGED << profileFile, profileResult, loadedProfile >>

ParseConfig(file) ==
    /\ profileResult = "none"
    /\ ParseConfigCall(file)
    /\ UNCHANGED << curveVars, engineVars, samplerVars, serialized, watcherVars >>

\* the members of a DistortionProfileConfig, in the order ParseDistortionConfig
\* sets them
ProfileMembers ==
    << "modifiedTime", "name", "description", "type", "distortions", "distortionsRed",
       "distortionsBlue" >>

ProfileStrings == {"description", "type"}

ProfileArrays == {"distortions", "distortionsRed", "distortionsBlue"}

MemberSet == {ProfileMembers[i] : i \in 1..Len(ProfileMembers)}

\* DistortionProfileConfig profile = {}, and what return {} gives
DefaultProfile == [m \in MemberSet |-> "default"]

\* What ParseDistortionConfig can meet at the profile file: no file, text
\* json::parse throws on, a root that is an array, a file that is gone when
\* its last_write_time is asked for, or an object whose string fields are
\* "set" or "unusable" and whose array fields are "unusable" (missing or not
\* an array), "numbers" or "mixed" (an array with an element that is not a
\* number, on which get<std::vector<double>> throws).
ProfileFiles ==
    {[kind |-> k, fields |-> [m \in ProfileStrings \cup ProfileArrays |-> "unusable"]] :
        k \in {"missing", "unparsable", "array", "vanished"}}
    \cup {[kind |-> "object", fields |-> fs] :
             fs \in {g \in [ProfileStrings \cup ProfileArrays ->
                               {"unusable", "set", "numbers", "mixed"}] :
                        /\ \A m \in ProfileStrings : g[m] \in {"unusable", "set"}
                        /\ \A m \in ProfileArrays : g[m] \in {"unusable", "numbers", "mixed"}}}

\* the place in ProfileMembers of the first member whose read throws, 0 when
\* none does
ThrowsAt(file) ==
    LET bad == {i \in 1..Len(ProfileMembers) :
                   \/ file.kind = "vanished" /\ ProfileMembers[i] = "modifiedTime"
                   \/ /\ file.kind = "object"
                      /\ ProfileMembers[i] \in ProfileArrays
                      /\ file.fields[ProfileMembers[i]] = "mixed"}
    IN  IF bad = {} THEN 0 ELSE CHOOSE i \in bad : \A k \in bad : i <= k

NoFile == [kind |-> "none"]

\* lines 79-96: the local profile after the members before place `upTo` were set
ProfileUpTo(file, upTo) ==
    [m \in MemberSet |->
        LET i == CHOOSE k \in 1..Len(ProfileMembers) : ProfileMembers[k] = m
        IN  IF i >= upTo THEN "default"
            ELSE IF m \in {"modifiedTime", "name"} THEN "file"
            ELSE IF file.fields[m] \in {"set", "numbers"} THEN "file"
            ELSE "default"]

\* how ParseDistortionConfig ends on a file
ParseDistortionOutcome(file) ==
    CASE file.kind = "missing" -> "notfound"
      [] file.kind \in {"unparsable", "array"} -> "threw"
      [] ThrowsAt(file) # 0 -> "threw"
      [] OTHER -> "ok"

\* ParseDistortionConfig returning, from its catch block, the profile as far
\* as the try block had filled it
ParsedProfilePartial(file) ==
    IF ParseDistortionOutcome(file) = "ok"
    THEN ProfileUpTo(file, Len(ProfileMembers) + 1)
    ELSE IF ThrowsAt(file) # 0 THEN ProfileUpTo(file, ThrowsAt(file))
    ELSE DefaultProfile


\* what ParseDistortionConfig returns on a file
ParsedProfile(file) ==
    IF ParseDistortionOutcome(file) = "ok"
    THEN ProfileUpTo(file, Len(ProfileMembers) + 1)
    ELSE DefaultProfile

\* ParseDistortionConfig up to its return statement
ParseDistortionConfig(file) ==
    /\ profileResult = "none"
    /\ profileFile' = file
    /\ profileResult' = ParseDistortionOutcome(file)
    /\ loadedProfile' = ParsedProfile(file)
    /\ UNCHANGED << driverConfig, hasLoggedConfigFileNotFound, settingsFile, parseResult >>
    /\ UNCHANGED << curveVars, engineVars, samplerVars, serialized, watcherVars >>

\* the caller has the returned profile; the call's locals are gone
ParseDistortionConfigReturn ==
    /\ profileResult # "none"
    /\ profileFile' = NoFile
    /\ profileResult' = "none"
    /\ loadedProfile' = DefaultProfile
    /\ UNCHANGED << driverConfig, hasLoggedConfigFileNotFound, settingsFile, parseResult >>
    /\ UNCHANGED << curveVars, engineVars, samplerVars, serialized, watcherVars >>

\* the loader before its first call
ConfigAtRest ==
    /\ driverConfig = DefaultConfig
    /\ hasLoggedConfigFileNotFound = FALSE
    /\ settingsFile = NoFile
    /\ parseResult = "none"
    /\ profileFile = NoFile
    /\ profileResult = "none"
    /\ loadedProfile = DefaultProfile

----------------------------------------------------------------------------
(* The directory watchers: WatcherThread and WatcherThreadDistortions *)

\* FILE_NOTIFY_INFORMATION::Action
FileActions ==
    {"FILE_ACTION_ADDED", "FILE_ACTION_REMOVED", "FILE_ACTION_MODIFIED",
     "FILE_ACTION_RENAMED_OLD_NAME", "FILE_ACTION_RENAMED_NEW_NAME"}

\* the actions both walks reload for (lines 124, 154)
ReloadActions ==
    {"FILE_ACTION_MODIFIED", "FILE_ACTION_ADDED", "FILE_ACTION_RENAMED_NEW_NAME"}

\* FILE_NOTIFY_INFORMATION::FileName: the settings file, a profile, another file
FileNames == {"settings.json", "lens.json", "notes.txt"}

\* fileName.find(L".json") != std::wstring::npos
HasJson(fileName) == fileName \in {"settings.json", "lens.json"}

\* A buffer of k chained entries as ReadDirectoryChangesW fills it: each entry
\* but the last has a non-zero NextEntryOffset (counted in entries here, in
\* bytes in the code), the last has 0.
BuffersOf(k) ==
    {[i \in 1..k |-> [NextEntryOffset |-> IF i < k THEN 1 ELSE 0,
                      Action |-> a[i],
                      FileName |-> n[i]]] :
        a \in [1..k -> FileActions], n \in [1..k -> FileNames]}

WatcherRoutines == {"WatcherThread", "WatcherThreadDistortions"}

\* the condition of the if inside the walk, line 124 or line 154
Matches(routine, entry) ==
    /\ entry.Action \in ReloadActions
    /\ IF routine = "WatcherThread" THEN entry.FileName = "settings.json"
       ELSE HasJson(entry.FileName)

\* the settings.json a reload meets
ReloadFiles ==
    {file \in SettingsFiles :
        \/ file.kind = "missing"
        \/ file.kind = "object" /\ \A f \in ConfigFields : file.fields[f] = "set"}

\* no watcher thread
WatcherAtRest ==
    /\ watcherRoutine = "none"
    /\ watchPc = "none"
    /\ buffer = << >>
    /\ pNotify = 0
    /\ examined = << >>
    /\ reloads = << >>

\* lines 115, 120 and 145, 150: ReadDirectoryChangesW returns a buffer and
\* pNotify is set to its first entry
ReadDirectoryChanges ==
    /\ watchPc = "read"
    /\ \E k \in 1..MaxEntries : \E buf \in BuffersOf(k) :
          /\ buffer' = buf
          /\ pNotify' = 1
          /\ examined' = [i \in 1..Len(buf) |-> 0]
          /\ reloads' = [i \in 1..Len(buf) |-> 0]
    /\ watchPc' = "body"
    /\ UNCHANGED << watcherRoutine, configVars >>
    /\ UNCHANGED << curveVars, engineVars, samplerVars, serialized >>

\* line 128 of WatcherThread; WatcherThreadDistortions has no such statement
Advance(routine, buf, p) ==
    IF routine = "WatcherThread" THEN p + buf[p].NextEntryOffset ELSE p

\* lines 122-128 and 152-157: one pass through the body of the do loop
WalkBody ==
    /\ watchPc = "body"
    /\ examined[pNotify] < MaxVisits
    /\ examined' = [examined EXCEPT ![pNotify] = @ + 1]
    /\ IF Matches(watcherRoutine, buffer[pNotify])
       THEN /\ reloads' = [reloads EXCEPT ![pNotify] = @ + 1]
            /\ \E file \in ReloadFiles : ParseConfigCall(file)
       ELSE /\ reloads' = reloads
            /\ UNCHANGED configVars
    /\ pNotify' = Advance(watcherRoutine, buffer, pNotify)
    /\ watchPc' = "while"
    /\ UNCHANGED << watcherRoutine, buffer >>
    /\ UNCHANGED << curveVars, engineVars, samplerVars, serialized >>

\* lines 129 and 158: while(pNotify->NextEntryOffset != 0)
WalkWhile ==
    /\ watchPc = "while"
    /\ watchPc' = IF buffer[pNotify].NextEntryOffset # 0 THEN "body" ELSE "sleep"
    /\ UNCHANGED << watcherRoutine, buffer, pNotify, examined, reloads, configVars >>
    /\ UNCHANGED << curveVars, engineVars, samplerVars, serialized >>

\* lines 130 and 159, then the next turn of while(started)
WatcherSleep ==
    /\ watchPc = "sleep"
    /\ watchPc' = "read"
    /\ buffer' = << >>
    /\ pNotify' = 0
    /\ examined' = << >>
    /\ reloads' = << >>
    /\ UNCHANGED << watcherRoutine, configVars >>
    /\ UNCHANGED << curveVars, engineVars, samplerVars, serialized >>

----------------------------------------------------------------------------
(* The engine: RadialBezierDistortionProfile *)

\* The calibration sets the caller configures an engine with: the green curve
\* of a wide and of a narrow lens, one inner point per segment, and a table
\* size.  (The red and blue offset curves and the resolution only decide the
\* numbers stored in the tables, which the model does not hold: a table entry
\* is tan() of a sampled degree.)
GreenWide ==
    << DistortionPoint(FromInt(0), FromInt(0)), DistortionPoint(FromInt(10), FromInt(10)),
       DistortionPoint(FromInt(20), FromInt(22)), DistortionPoint(FromInt(30), FromInt(36)) >>

GreenNarrow ==
    << DistortionPoint(FromInt(0), FromInt(0)), DistortionPoint(FromInt(10), FromInt(10)),
       DistortionPoint(FromInt(20), FromInt(22)) >>

CalibrationSets ==
    [distortions : {GreenWide, GreenNarrow}, inBetweenPoints : {1},
     radialMapSize : 1..MaxMapSize]

ColorChannels == {"ColorChannelRed", "ColorChannelGreen", "ColorChannelBlue"}

\* a float array of the heap: live or freed, its length, how many of its
\* entries (from index 0) were written (none of a freed array's are), and how
\* often it was handed to delete[]
NewArray(size) == [state |-> "live", size |-> size, written |-> 0, frees |-> 0]

\* delete[] p, behind the code's test of p against nullptr
Delete(h, p) ==
    IF p = NULL THEN h
    ELSE [h EXCEPT ![p].state = "freed", ![p].written = 0, ![p].frees = @ + 1]

\* the members of a newly constructed engine
DefaultMembers ==
    /\ distortions = << >>
    /\ inBetweenPoints = 0
    /\ radialMapSize = 0
    /\ radialUVMapR = NULL
    /\ radialUVMapG = NULL
    /\ radialUVMapB = NULL
    /\ radialMapConversion = 0
    /\ halfFov = FromInt(0)

NoIndex == [conv |-> 0, floor |-> 0, whole |-> TRUE, index |-> 0, size |-> 0]

NoAccess == [state |-> "none", size |-> 0, written |-> 0, result |-> "none"]

SamplerAtRest ==
    /\ samplePc = "idle"
    /\ sampleReady = FALSE
    /\ sampleRadiusSq = 0
    /\ sampleMap = NULL
    /\ sampleIndex = NoIndex
    /\ sampleAccess = NoAccess

EngineConstructed ==
    /\ DefaultMembers
    /\ heap = << >>
    /\ initPc = "idle"
    /\ fillIndex = 0
    /\ inits = 0
    /\ lastCall = "none"
    /\ SamplerAtRest

\* the engine as the specifications of the other components leave it
EngineAtRest == EngineConstructed /\ serialized = TRUE

\* A caller that serializes keeps lifecycle calls and ComputeDistortion apart;
\* one that does not lets the two threads interleave freely.
LifecycleMayRun == serialized => samplePc = "idle"

SamplerMayRun == serialized => initPc = "idle"

\* Cleanup as it would be without line 263: radialUVMapR keeps the freed pointer
CleanupKeepsPointer ==
    /\ heap' = Delete(Delete(Delete(heap, radialUVMapR), radialUVMapG), radialUVMapB)
    /\ radialUVMapR' = radialUVMapR
    /\ radialUVMapG' = NULL
    /\ radialUVMapB' = NULL

\* Cleanup's effect on the heap and the three pointers
Cleanup ==
    /\ heap' = Delete(Delete(Delete(heap, radialUVMapR), radialUVMapG), radialUVMapB)
    /\ radialUVMapR' = NULL
    /\ radialUVMapG' = NULL
    /\ radialUVMapB' = NULL

\* the loop of lines 142-146 on halfFov: std::max with each smoothed degree
RECURSIVE TrackHalfFov(_, _, _)
TrackHalfFov(h, smooth, i) ==
    IF i > Len(smooth) THEN h
    ELSE TrackHalfFov(FMax(h, smooth[i].degree), smooth, i + 1)

\* The caller sets the calibration members and calls Initialize, which runs
\* Cleanup first.
InitializeBegin(cs) ==
    /\ initPc = "idle"
    /\ inits < MaxInits
    /\ LifecycleMayRun
    /\ inits' = inits + 1
    /\ distortions' = cs.distortions
    /\ inBetweenPoints' = cs.inBetweenPoints
    /\ radialMapSize' = cs.radialMapSize
    /\ Cleanup
    /\ initPc' = "smooth"
    /\ UNCHANGED << radialMapConversion, halfFov, fillIndex, lastCall >>
    /\ UNCHANGED << curveVars, samplerVars, serialized, configVars, watcherVars >>

\* lines 135-146: smooth the green curve and track halfFov
InitializeSmooth ==
    /\ initPc = "smooth"
    /\ LifecycleMayRun
    /\ halfFov' = TrackHalfFov(halfFov, SmoothPoints(distortions, inBetweenPoints), 1)
    /\ initPc' = "allocR"
    /\ UNCHANGED << distortions, inBetweenPoints, radialMapSize, radialUVMapR,
                    radialUVMapG, radialUVMapB, radialMapConversion, heap,
                    fillIndex, inits, lastCall >>
    /\ UNCHANGED << curveVars, samplerVars, serialized, configVars, watcherVars >>

\* lines 189-191: one new float[radialMapSize] that succeeds
InitializeAlloc ==
    /\ initPc \in {"allocR", "allocG", "allocB"}
    /\ LifecycleMayRun
    /\ heap' = Append(heap, NewArray(radialMapSize))
    /\ radialUVMapR' = IF initPc = "allocR" THEN Len(heap) + 1 ELSE radialUVMapR
    /\ radialUVMapG' = IF initPc = "allocG" THEN Len(heap) + 1 ELSE radialUVMapG
    /\ radialUVMapB' = IF initPc = "allocB" THEN Len(heap) + 1 ELSE radialUVMapB
    /\ initPc' = CASE initPc = "allocR" -> "allocG"
                   [] initPc = "allocG" -> "allocB"
                   [] initPc = "allocB" -> "conv"
    /\ UNCHANGED << distortions, inBetweenPoints, radialMapSize, radialMapConversion,
                    halfFov, fillIndex, inits, lastCall >>
    /\ UNCHANGED << curveVars, samplerVars, serialized, configVars, watcherVars >>

\* lines 189-191: one new float[radialMapSize] that throws std::bad_alloc,
\* which leaves Initialize
InitializeAllocThrows ==
    /\ initPc \in {"allocR", "allocG", "allocB"}
    /\ LifecycleMayRun
    /\ initPc' = "idle"
    /\ lastCall' = "InitializeThrew"
    /\ UNCHANGED << distortions, inBetweenPoints, radialMapSize, radialUVMapR,
                    radialUVMapG, radialUVMapB, radialMapConversion, halfFov, heap,
                    fillIndex, inits >>
    /\ UNCHANGED << curveVars, samplerVars, serialized, configVars, watcherVars >>

\* line 192
InitializeConversion ==
    /\ initPc = "conv"
    /\ LifecycleMayRun
    /\ radialMapConversion' = radialMapSize
    /\ fillIndex' = 0
    /\ initPc' = "fill"
    /\ UNCHANGED << distortions, inBetweenPoints, radialMapSize, radialUVMapR,
                    radialUVMapG, radialUVMapB, halfFov, heap, inits, lastCall >>
    /\ UNCHANGED << curveVars, samplerVars, serialized, configVars, watcherVars >>

\* lines 193-198: one iteration writes entry i of each table
InitializeFill ==
    /\ initPc = "fill"
    /\ fillIndex < radialMapSize
    /\ LifecycleMayRun
    /\ heap' = [heap EXCEPT ![radialUVMapR].written = fillIndex + 1,
                            ![radialUVMapG].written = fillIndex + 1,
                            ![radialUVMapB].written = fillIndex + 1]
    /\ fillIndex' = fillIndex + 1
    /\ UNCHANGED << distortions, inBetweenPoints, radialMapSize, radialUVMapR,
                    radialUVMapG, radialUVMapB, radialMapConversion, halfFov,
                    initPc, inits, lastCall >>
    /\ UNCHANGED << curveVars, samplerVars, serialized, configVars, watcherVars >>

\* the loop ends and Initialize returns
InitializeReturn ==
    /\ initPc = "fill"
    /\ fillIndex >= radialMapSize
    /\ LifecycleMayRun
    /\ initPc' = "idle"
    /\ lastCall' = "Initialize"
    /\ UNCHANGED << distortions, inBetweenPoints, radialMapSize, radialUVMapR,
                    radialUVMapG, radialUVMapB, radialMapConversion, halfFov, heap,
                    fillIndex, inits >>
    /\ UNCHANGED << curveVars, samplerVars, serialized, configVars, watcherVars >>

\* the caller calls Cleanup
CallCleanup ==
    /\ initPc = "idle"
    /\ LifecycleMayRun
    /\ Cleanup
    /\ lastCall' = "Cleanup"
    /\ UNCHANGED << distortions, inBetweenPoints, radialMapSize, radialMapConversion,
                    halfFov, initPc, fillIndex, inits >>
    /\ UNCHANGED << curveVars, samplerVars, serialized, configVars, watcherVars >>

\* ~RadialBezierDistortionProfile
Destroy ==
    /\ initPc = "idle"
    /\ LifecycleMayRun
    /\ Cleanup
    /\ initPc' = "destroyed"
    /\ lastCall' = "~RadialBezierDistortionProfile"
    /\ UNCHANGED << distortions, inBetweenPoints, radialMapSize, radialMapConversion,
                    halfFov, fillIndex, inits >>
    /\ UNCHANGED << curveVars, samplerVars, serialized, configVars, watcherVars >>

----------------------------------------------------------------------------
(* The render thread: ComputeDistortion and SampleFromMap *)

\* the largest r with r * r <= x
ISqrt(x) == CHOOSE r \in 0..x : r * r <= x /\ (r + 1) * (r + 1) > x

\* indexFloat = radius * radialMapConversion, where radius = sqrt(radiusSq) / GridDen:
\* its whole part, and whether it is a whole number
IndexFloatFloor(radiusSq, conv) == ISqrt(conv * conv * radiusSq) \div GridDen

IndexFloatWhole(radiusSq, conv) ==
    LET x == conv * conv * radiusSq
    IN  ISqrt(x) * ISqrt(x) = x /\ ISqrt(x) % GridDen = 0

\* the clamp with > for >= in line 120
ClampIndexOffByOne(index, size) ==
    IF index < 0 THEN 0
    ELSE IF index > size - 1 THEN size - 2
    ELSE index

\* lines 118-122
ClampIndex(index, size) ==
    IF index < 0 THEN 0
    ELSE IF index >= size - 1 THEN size - 2
    ELSE index

\* lines 229 and 241-251: the radius, and the table of the channel handed to
\* SampleFromMap; fU = a / GridDen, fV = b / GridDen
ComputeDistortion(colorChannel, a, b) ==
    /\ samplePc = "idle"
    /\ initPc # "destroyed"
    /\ SamplerMayRun
    /\ sampleRadiusSq' = a * a + b * b
    /\ sampleMap' = CASE colorChannel = "ColorChannelRed" -> radialUVMapR
                      [] colorChannel = "ColorChannelGreen" -> radialUVMapG
                      [] colorChannel = "ColorChannelBlue" -> radialUVMapB
    /\ sampleReady' = (initPc = "idle" /\ lastCall = "Initialize")
    /\ samplePc' = "index"
    /\ UNCHANGED << sampleIndex, sampleAccess >>
    /\ UNCHANGED << curveVars, engineVars, serialized, configVars, watcherVars >>

\* lines 116-122: indexFloat from radialMapConversion, index clamped by radialMapSize
SampleFromMapIndex ==
    /\ samplePc = "index"
    /\ SamplerMayRun
    /\ sampleIndex' =
          [conv |-> radialMapConversion,
           floor |-> IndexFloatFloor(sampleRadiusSq, radialMapConversion),
           whole |-> IndexFloatWhole(sampleRadiusSq, radialMapConversion),
           index |-> ClampIndex(IndexFloatFloor(sampleRadiusSq, radialMapConversion),
                                radialMapSize),
           size |-> radialMapSize]
    /\ samplePc' = "read"
    /\ UNCHANGED << sampleReady, sampleRadiusSq, sampleMap, sampleAccess >>
    /\ UNCHANGED << curveVars, engineVars, serialized, configVars, watcherVars >>

\* what reading map[index] and map[index + 1] can give: the entries of a live
\* array read inside it, and otherwise (a null or freed pointer, an index
\* outside the array) whatever undefined behaviour gives
ReadResults(map, index) ==
    IF /\ map # NULL
       /\ heap[map].state = "live"
       /\ index >= 0
       /\ index + 1 < heap[map].written
    THEN {"entries"}
    ELSE {"crash", "garbage"}

\* line 123: the read of map[index] and map[index + 1]
SampleFromMapRead ==
    /\ samplePc = "read"
    /\ SamplerMayRun
    /\ \E result \in ReadResults(sampleMap, sampleIndex.index) :
          sampleAccess' =
             IF sampleMap = NULL
             THEN [state |-> "null", size |-> 0, written |-> 0, result |-> result]
             ELSE [state |-> heap[sampleMap].state, size |-> heap[sampleMap].size,
                   written |-> heap[sampleMap].written, result |-> result]
    /\ samplePc' = "return"
    /\ UNCHANGED << sampleReady, sampleRadiusSq, sampleMap, sampleIndex >>
    /\ UNCHANGED << curveVars, engineVars, serialized, configVars, watcherVars >>

\* lines 254-257: ComputeDistortion returns
ComputeDistortionReturn ==
    /\ samplePc = "return"
    /\ SamplerMayRun
    /\ samplePc' = "idle"
    /\ sampleReady' = FALSE
    /\ sampleRadiusSq' = 0
    /\ sampleMap' = NULL
    /\ sampleIndex' = NoIndex
    /\ sampleAccess' = NoAccess
    /\ UNCHANGED << curveVars, engineVars, serialized, configVars, watcherVars >>

CurveAtRest ==
    /\ points = << >>
    /\ calls = << >>
    /\ innerPointCounts = 0
    /\ outPoints = << >>
    /\ sampleArg = FromInt(0)
    /\ sampleVal = FromInt(0)

\* a caller that serializes, as the engine's design assumes
Init ==
    /\ EngineConstructed
    /\ serialized = TRUE
    /\ CurveAtRest
    /\ ConfigAtRest
    /\ WatcherAtRest

\* a caller that re-initializes while the render thread samples
InitConcurrent ==
    /\ EngineConstructed
    /\ serialized = FALSE
    /\ CurveAtRest
    /\ ConfigAtRest
    /\ WatcherAtRest

Next ==
    \/ \E cs \in CalibrationSets : InitializeBegin(cs)
    \/ InitializeSmooth
    \/ InitializeAlloc
    \/ InitializeAllocThrows
    \/ InitializeConversion
    \/ InitializeFill
    \/ InitializeReturn
    \/ CallCleanup
    \/ Destroy
    \/ \E colorChannel \in ColorChannels, a \in (-GridDen)..GridDen, b \in (-GridDen)..GridDen :
          ComputeDistortion(colorChannel, a, b)
    \/ SampleFromMapIndex
    \/ SampleFromMapRead
    \/ ComputeDistortionReturn

Spec == Init /\ [][Next]_vars

SpecConcurrent == InitConcurrent /\ [][Next]_vars

----------------------------------------------------------------------------
(* The inputs of the curve functions: calibration sequences of 2..MaxPoints *)
(* points with whole coordinates in 0..MaxCoord, increasing in position and *)
(* with degrees in any order, ties included (a tie makes a slope divide by  *)
(* zero).                                                                   *)

Coords == 0..MaxCoord

CalibrationPoints ==
    {DistortionPoint(FromInt(x), FromInt(y)) : x \in Coords, y \in Coords}

\* p may follow q in a calibration sequence
Follows(q, p) == FLt(q.position, p.position)

RECURSIVE OrderedSeqs(_)
OrderedSeqs(n) ==
    IF n = 1 THEN {<< p >> : p \in CalibrationPoints}
    ELSE UNION {{Append(s, p) : p \in {q \in CalibrationPoints : Follows(s[n - 1], q)}} :
                   s \in OrderedSeqs(n - 1)}

PointSeqs == UNION {OrderedSeqs(n) : n \in 2..MaxPoints}

\* sampling arguments: the whole and half values from 0 to MaxCoord + 1
SampleArgs == {Frac(k, 2) : k \in 0..(2 * MaxCoord + 2)}

InitCurve ==
    /\ points \in PointSeqs
    /\ calls = << >>
    /\ innerPointCounts = 0
    /\ outPoints = << >>
    /\ sampleArg = FromInt(0)
    /\ sampleVal = FromInt(0)
    /\ EngineAtRest
    /\ ConfigAtRest
    /\ WatcherAtRest

CallSmoothPoints(count) ==
    /\ calls = << >>
    /\ calls' = << "SmoothPoints" >>
    /\ innerPointCounts' = count
    /\ outPoints' = SmoothPoints(points, count)
    /\ UNCHANGED << points, sampleArg, sampleVal >>
    /\ UNCHANGED << engineVars, samplerVars, serialized, configVars, watcherVars >>

\* SampleFromPoints on a fresh argument
CallSampleFromPoints(degree) ==
    /\ calls = << >>
    /\ calls' = << "SampleFromPoints" >>
    /\ sampleArg' = degree
    /\ sampleVal' = SampleFromPoints(points, degree)
    /\ UNCHANGED << points, innerPointCounts, outPoints >>
    /\ UNCHANGED << engineVars, samplerVars, serialized, configVars, watcherVars >>

\* SampleFromPointsInverse on a fresh argument
CallSampleFromPointsInverse(position) ==
    /\ calls = << >>
    /\ calls' = << "SampleFromPointsInverse" >>
    /\ sampleArg' = position
    /\ sampleVal' = SampleFromPointsInverse(points, position)
    /\ UNCHANGED << points, innerPointCounts, outPoints >>
    /\ UNCHANGED << engineVars, samplerVars, serialized, configVars, watcherVars >>

\* SampleFromPointsInverse on what SampleFromPoints returned
ThenSampleFromPointsInverse ==
    /\ calls = << "SampleFromPoints" >>
    /\ calls' = Append(calls, "SampleFromPointsInverse")
    /\ sampleVal' = SampleFromPointsInverse(points, sampleVal)
    /\ UNCHANGED << points, innerPointCounts, outPoints, sampleArg >>
    /\ UNCHANGED << engineVars, samplerVars, serialized, configVars, watcherVars >>

\* SampleFromPoints on what SampleFromPointsInverse returned
ThenSampleFromPoints ==
    /\ calls = << "SampleFromPointsInverse" >>
    /\ calls' = Append(calls, "SampleFromPoints")
    /\ sampleVal' = SampleFromPoints(points, sampleVal)
    /\ UNCHANGED << points, innerPointCounts, outPoints, sampleArg >>
    /\ UNCHANGED << engineVars, samplerVars, serialized, configVars, watcherVars >>

NextCurve ==
    \/ \E count \in 0..MaxCount : CallSmoothPoints(count)
    \/ \E degree \in SampleArgs : CallSampleFromPoints(degree)
    \/ \E position \in SampleArgs : CallSampleFromPointsInverse(position)
    \/ ThenSampleFromPointsInverse
    \/ ThenSampleFromPoints

SpecCurve == InitCurve /\ [][NextCurve]_vars

----------------------------------------------------------------------------
(* The configuration loader on its own *)

InitConfig ==
    /\ ConfigAtRest
    /\ WatcherAtRest
    /\ CurveAtRest
    /\ EngineAtRest

NextConfig ==
    \/ \E file \in SettingsFiles : ParseConfig(file)
    \/ \E file \in ProfileFiles : ParseDistortionConfig(file)
    \/ ParseDistortionConfigReturn

SpecConfig == InitConfig /\ [][NextConfig]_vars

----------------------------------------------------------------------------
(* A directory watcher on its own *)

\* a watcher thread that has opened its directory and entered while(started)
InitWatcher ==
    /\ watcherRoutine \in WatcherRoutines
    /\ watchPc = "read"
    /\ buffer = << >>
    /\ pNotify = 0
    /\ examined = << >>
    /\ reloads = << >>
    /\ ConfigAtRest
    /\ CurveAtRest
    /\ EngineAtRest

NextWatcher ==
    \/ ReadDirectoryChanges
    \/ WalkBody
    \/ WalkWhile
    \/ WatcherSleep

SpecWatcher == InitWatcher /\ [][NextWatcher]_vars

----------------------------------------------------------------------------
(* Properties of the engine's lifecycle and sampling *)

AllTablesNull ==
    radialUVMapR = NULL /\ radialUVMapG = NULL /\ radialUVMapB = NULL

\* table p is allocated and each of its radialMapSize entries was written
TablePopulated(p) ==
    /\ p # NULL
    /\ heap[p].state = "live"
    /\ heap[p].size = radialMapSize
    /\ heap[p].written = radialMapSize

AllTablesPopulated ==
    /\ TablePopulated(radialUVMapR)
    /\ TablePopulated(radialUVMapG)
    /\ TablePopulated(radialUVMapB)

\* C1: between the calls on one engine (after any sequence of Initialize,
\* Cleanup and destruction, an Initialize that an allocation failure ended
\* included) the three tables are all allocated with every entry written, or
\* all null.  The steps inside Initialize break it too; this states it for the
\* states a caller observes.
C1_NoPartialState ==
    initPc \in {"idle", "destroyed"} => (AllTablesPopulated \/ AllTablesNull)

\* ComputeDistortion, begun on an initialized engine, has just read
\* map[index] and map[index + 1]
SampledInitialized == samplePc = "return" /\ sampleReady

InitializeInProgress == initPc \in {"smooth", "allocR", "allocG", "allocB", "conv", "fill"}

\* C2: when ComputeDistortion, begun on an initialized engine, reads its table
\* while Initialize runs on the other thread, the table it reads is allocated
\* and fully populated (not freed, not null) and the radialMapConversion it
\* used is that table's.
C2_SamplingReadsValidTable ==
    (SampledInitialized /\ InitializeInProgress) =>
        /\ sampleAccess.state = "live"
        /\ sampleAccess.written = sampleAccess.size
        /\ sampleIndex.conv = sampleAccess.size

\* the largest degree of a sequence of points
MaxDegree(pts) ==
    CHOOSE d \in {pts[i].degree : i \in 1..Len(pts)} :
        \A i \in 1..Len(pts) : FLe(pts[i].degree, d)

\* C3: after every completed Initialize, halfFov is the largest degree of the
\* green curve smoothed from the calibration set that Initialize used.
C3_HalfFovOfLastInitialize ==
    (initPc = "idle" /\ lastCall = "Initialize") =>
        halfFov = MaxDegree(SmoothPoints(distortions, inBetweenPoints))

\* both entries SampleFromMap read lie inside the table
IndexInsideTable ==
    /\ sampleIndex.index >= 0
    /\ sampleIndex.index + 1 <= sampleAccess.size - 1

\* C4: on an initialized engine with radialMapSize >= 1 and fU, fV
\* in [-1, 1], map[index] and map[index + 1] are inside the table.
C4_IndexInsideTableFromOne ==
    (SampledInitialized /\ radialMapSize >= 1) => IndexInsideTable

\* C4 for tables of two or more entries: with radialMapSize >= 2 and fU, fV
\* in [-1, 1], map[index] and map[index + 1] are inside the table.
C4_IndexInsideTable ==
    (SampledInitialized /\ radialMapSize >= 2) => IndexInsideTable

\* a sample at a corner of the frame (|fU| = |fV| = 1) of a table of three or
\* more entries: the index was clamped to the last interval and read there
C4_CornerSampleClamped ==
    /\ SampledInitialized
    /\ radialMapSize >= 3
    /\ sampleRadiusSq = 2 * GridDen * GridDen
    /\ sampleIndex.floor > sampleIndex.index
    /\ sampleIndex.index = radialMapSize - 2
    /\ sampleAccess.result = "entries"

\* C5: over any sequence of Initialize, Cleanup and destructor calls no table
\* is freed twice, none is live without one of the three pointers holding it
\* (none was replaced without being freed), none is live after the destructor,
\* and all three pointers are null after any Cleanup: the one Initialize runs
\* before it builds, a call of Cleanup, and the destructor's.
C5_TablesFreedExactlyOnce ==
    /\ \A b \in DOMAIN heap :
          /\ heap[b].frees <= 1
          /\ heap[b].state = "freed" <=> heap[b].frees = 1
          /\ heap[b].state = "live" => b \in {radialUVMapR, radialUVMapG, radialUVMapB}
    /\ initPc = "destroyed" => \A b \in DOMAIN heap : heap[b].state = "freed"
    /\ initPc = "smooth" => AllTablesNull
    /\ (initPc \in {"idle", "destroyed"}
          /\ lastCall \in {"Cleanup", "~RadialBezierDistortionProfile"}) => AllTablesNull

\* an engine destroyed after MaxInits initializations, the last one complete:
\* every table of each was freed
C5_DestroyedAfterReinitialize ==
    /\ initPc = "destroyed"
    /\ inits = MaxInits
    /\ Len(heap) = 3 * MaxInits
    /\ \A b \in DOMAIN heap : heap[b].frees = 1

\* the interpolation weight indexFloat - index lies in [0, 1]
WeightInUnitInterval ==
    LET w == sampleIndex.floor - sampleIndex.index
    IN  w = 0 \/ (w = 1 /\ sampleIndex.whole)

\* C10: on an initialized engine with radialMapSize >= 2 and fU, fV in
\* [-1, 1], the weight SampleFromMap hands to lerp lies in [0, 1].
C10_WeightInUnitInterval ==
    (SampledInitialized /\ radialMapSize >= 2) => WeightInUnitInterval

----------------------------------------------------------------------------
(* Properties of the curve functions *)

StrictlyIncreasingDegree(pts) ==
    \A i \in 1..(Len(pts) - 1) : FLt(pts[i].degree, pts[i + 1].degree)

StrictlyIncreasingPosition(pts) ==
    \A i \in 1..(Len(pts) - 1) : FLt(pts[i].position, pts[i + 1].position)

Smoothed == calls = << "SmoothPoints" >>

\* C6: SmoothPoints of n >= 2 points and a count >= 0 returns n + (n - 1) * count
\* points, with original point i (from 1) unchanged at place
\* (i - 1) * (count + 1) + 1, so with count generated points between
\* neighbours and the first and last points in the first and last places.
C6_SmoothPointsKeepsOriginals ==
    Smoothed =>
        LET n == Len(points)
        IN  /\ Len(outPoints) = n + (n - 1) * innerPointCounts
            /\ \A i \in 1..n :
                  /\ (i - 1) * (innerPointCounts + 1) + 1 \in DOMAIN outPoints
                  /\ outPoints[(i - 1) * (innerPointCounts + 1) + 1] = points[i]
            /\ outPoints[1] = points[1]
            /\ outPoints[Len(outPoints)] = points[n]

\* SmoothPoints returned for MaxPoints points, two of them of one degree, and
\* MaxCount inner points per segment
C6_SmoothedLongestInput ==
    /\ Smoothed
    /\ Len(points) = MaxPoints
    /\ innerPointCounts = MaxCount
    /\ points[2].degree = points[3].degree
    /\ Len(outPoints) > Len(points)

\* C7: SmoothPoints of at least 2 points of strictly increasing degree returns
\* a sequence of strictly increasing degree.
C7_SmoothPointsKeepsDegreesIncreasing ==
    (Smoothed /\ StrictlyIncreasingDegree(points)) => StrictlyIncreasingDegree(outPoints)

\* SmoothPoints returned for three or more points of strictly increasing
\* degree and unequal slopes, with inner points in each segment
C7_SmoothedIncreasingInput ==
    /\ Smoothed
    /\ Len(points) >= 3
    /\ innerPointCounts >= 2
    /\ StrictlyIncreasingDegree(points)
    /\ points[2].position # points[2].degree
    /\ Len(outPoints) = Len(points) + (Len(points) - 1) * innerPointCounts

StrictlyInside(x, lo, hi) == FLt(lo, x) /\ FLt(x, hi)

\* C8: on points strictly increasing in degree and in position,
\* SampleFromPointsInverse undoes SampleFromPoints at every degree strictly
\* between the first and the last, and SampleFromPoints undoes
\* SampleFromPointsInverse at every position strictly between the first and
\* the last.
C8_SamplingRoundTrip ==
    LET n == Len(points)
        monotone == StrictlyIncreasingDegree(points) /\ StrictlyIncreasingPosition(points)
    IN  /\ ( /\ calls = << "SampleFromPoints", "SampleFromPointsInverse" >>
             /\ monotone
             /\ StrictlyInside(sampleArg, points[1].degree, points[n].degree) )
           => sampleVal = sampleArg
        /\ ( /\ calls = << "SampleFromPointsInverse", "SampleFromPoints" >>
             /\ monotone
             /\ StrictlyInside(sampleArg, points[1].position, points[n].position) )
           => sampleVal = sampleArg

\* the round trip was made from a degree that is an inner calibration point's,
\* on points whose degrees and positions differ
C8_RoundTripAtCalibrationPoint ==
    /\ calls = << "SampleFromPoints", "SampleFromPointsInverse" >>
    /\ Len(points) >= 3
    /\ StrictlyIncreasingDegree(points)
    /\ StrictlyIncreasingPosition(points)
    /\ sampleArg = points[2].degree
    /\ points[2].position # points[2].degree

----------------------------------------------------------------------------
(* Properties of the configuration loader *)

LoadFailed(result) == result \in {"notfound", "threw"}

\* C9: a ParseConfig that cannot open settings.json, or in which parsing
\* throws, leaves driverConfig as it was; a ParseDistortionConfig that cannot
\* open the profile file, or in which parsing throws at any field, returns the
\* default profile.
C9_FailedLoadPublishesNothing ==
    [][ /\ LoadFailed(parseResult') => driverConfig' = driverConfig
        /\ LoadFailed(profileResult') => loadedProfile' = DefaultProfile ]_vars

\* ParseDistortionConfig threw at an array after it had set description, while
\* the configuration of an earlier settings.json outlived a ParseConfig that threw
C9_ThrewAfterFieldsWereRead ==
    /\ profileResult = "threw"
    /\ profileFile.kind = "object"
    /\ profileFile.fields["description"] = "set"
    /\ ThrowsAt(profileFile) > 3
    /\ parseResult = "threw"
    /\ driverConfig # DefaultConfig

----------------------------------------------------------------------------
(* Properties of the directory watchers *)

\* the walk over the buffer has ended
WalkEnded == watchPc = "sleep"

\* no entry of the buffer has been examined twice
NoEntryExaminedTwice == \A i \in DOMAIN buffer : examined[i] <= 1

\* every entry was examined once, and ParseConfig was called once for each
\* matching entry and for no other
EachEntryHandledOnce ==
    \A i \in DOMAIN buffer :
        /\ examined[i] = 1
        /\ reloads[i] = IF Matches(watcherRoutine, buffer[i]) THEN 1 ELSE 0

\* C11: in both watchers the walk over a buffer of k >= 1 chained entries
\* never examines an entry a second time (it does not loop on an entry whose
\* NextEntryOffset is non-zero), and when it ends it has examined each of the
\* k entries exactly once and called ParseConfig exactly once for each
\* matching entry, the last one included.
C11_WalkExaminesEachEntryOnce ==
    /\ NoEntryExaminedTwice
    /\ WalkEnded => EachEntryHandledOnce

\* C11 for WatcherThread alone: its walk ends having handled each entry once
C11_SettingsWalkHandlesEachEntry ==
    (watcherRoutine = "WatcherThread" /\ WalkEnded) => EachEntryHandledOnce

\* C11 for WatcherThreadDistortions alone: its walk examines no entry twice
C11_DistortionsWalkNeverRepeats ==
    watcherRoutine = "WatcherThreadDistortions" => NoEntryExaminedTwice

====
